---- MODULE Spec2Model ----
(***************************************************************************)
(* The `add` command of the reactuse CLI: resolveDependencies walks the    *)
(* registry from the selected hooks, the handler turns the resolved map    *)
(* into file plans and a package list, and the install loop prompts,       *)
(* fetches, writes and maintains the barrel indexes.                       *)
(*                                                                         *)
(* A path is the sequence of its segments, a barrel index is the sequence  *)
(* of its tokens (an export statement, a line break, other text), and a    *)
(* JavaScript Map is the sequence of its entries in insertion order.       *)
(*                                                                         *)
(* The useOrientation hook is the second program: a component that uses    *)
(* it mounts and unmounts, the screen turns, and `change` events are       *)
(* delivered to the listeners of window.screen.orientation.                *)
(***************************************************************************)
EXTENDS Integers, Sequences, FiniteSets, TLC

VARIABLES
    pc,            \* where the handler stands (the await it is suspended at)
    options,       \* addOptionsSchema.parse(argv): [hooks, all]
    config,        \* getConfig(APP_PATH): [typescript] or NoConfig
    registry,      \* registryResponse.data
    selectedHooks, \* the root hooks
    pathToLoadHooks,
    pathToLoadUtils,
    dependencies,  \* the Map resolveDependencies returned
    calls,         \* the hooks resolveDependency was called with, in call order
    error,         \* the exception that ended the handler, "" when none
    exitCode,      \* process.exit's argument, -1 while running
    files,         \* the file plans
    packages,      \* the collected package names
    idx,           \* the plan the install loop is at (1-based)
    prompted,      \* names the overwrite prompt was shown for, in order
    overwrite,     \* the answer to the last overwrite prompt
    skipped,       \* names of the "Skipped ..." console lines, in order
    requests,      \* URLs handed to fetches.get in the install loop, in order
    fsDirs,        \* directories on disk
    fsFiles,       \* files on disk: path -> content
    runs,          \* invocations of the command so far
    phase,         \* the component using useOrientation: initial, mounted, unmounted
    mounts,        \* times the component was mounted; names the current onChange closure
    orientation,   \* the hook's state, which it returns
    screenOrientation, \* window.screen.orientation: [angle, type], or Undefined
    listeners,     \* the `change` listeners of window.screen.orientation
    pending        \* `change` events dispatched and not yet delivered

handlerVars == <<pc, options, config, registry, selectedHooks, pathToLoadHooks,
                 pathToLoadUtils, dependencies, calls, error, exitCode, files,
                 packages, idx, prompted, overwrite, skipped, requests, fsDirs,
                 fsFiles, runs>>

hookVars == <<phase, mounts, orientation, screenOrientation, listeners, pending>>

vars == <<handlerVars, hookVars>>

(***************************************************************************)
(* Bounds.                                                                 *)
(***************************************************************************)
\* Frames the call stack holds before "Maximum call stack size exceeded".
MaxStack == 4
\* Invocations of the command against the same project.
MaxRuns == 2
\* Times the component that uses the hook is mounted.
MaxMounts == 2
\* `change` events waiting in the event loop.
MaxPending == 2

(***************************************************************************)
(* The registry: three units; "z" is a name no registry has as a key.      *)
(* "x" is a leaf name several units may declare, "c" is both a unit and a  *)
(* name units "a" and "b" may declare as a leaf, "p" is declared by "c"    *)
(* alone.                                                                  *)
(***************************************************************************)
UnitNames == {"a", "b", "c"}
Unknown == "z"

Entry(n, h, u, l, p) ==
    [name |-> n, hooks |-> h, utils |-> u, local |-> l, packages |-> p]

EntriesA ==
    { Entry("a", h, u, l, p) :
        h \in {<<>>, <<"b">>, <<"c">>, <<"b", "c">>, <<"a">>, <<Unknown>>},
        u \in {<<>>, <<"x">>, <<"c">>},
        l \in {<<>>, <<"x">>},
        p \in {<<>>, <<"x">>} }

EntriesB ==
    { Entry("b", h, <<>>, l, p) :
        h \in {<<>>, <<"c">>, <<"a">>},
        l \in {<<>>, <<"x">>},
        p \in {<<>>, <<"c">>} }

EntriesC ==
    { Entry("c", h, <<>>, <<>>, p) :
        h \in {<<>>, <<"a">>},
        p \in {<<>>, <<"p">>} }

MkRegistry(ea, eb, ec) ==
    [k \in UnitNames |-> IF k = "a" THEN ea ELSE IF k = "b" THEN eb ELSE ec]

\* The catalogues the registry URL may serve.
Registries == { MkRegistry(ea, eb, ec) : ea \in EntriesA, eb \in EntriesB, ec \in EntriesC }

\* Object.keys(registry), in the order of the JSON document.
ObjectKeys(reg) == <<"a", "b", "c">>

NoRegistry == [missing |-> TRUE]
\* fetches.get(options.registry) rejects.
RegistryRejected == [rejected |-> TRUE]
NoConfig == [missing |-> TRUE]

(***************************************************************************)
(* Map<string, {type, name, parent}>.                                      *)
(***************************************************************************)
Range(s) == { s[i] : i \in 1..Len(s) }

MapKeys(m) == { m[i].name : i \in 1..Len(m) }

MapHas(m, k) == k \in MapKeys(m)

MapGet(m, k) == m[CHOOSE i \in 1..Len(m) : m[i].name = k]

\* A set that always appends: the name would be held twice.
MapSetAppend(m, k, v) == Append(m, v)

\* Map.prototype.set: a new key goes last, an old key keeps its place and
\* takes the new value.
MapSet(m, k, v) ==
    IF MapHas(m, k)
    THEN [i \in 1..Len(m) |-> IF m[i].name = k THEN v ELSE m[i]]
    ELSE Append(m, v)

Node(t, n, par) == [type |-> t, name |-> n, parent |-> par]

\* names.forEach((n) => files.set(n, {type, name: n, parent}))
RECURSIVE SetAll(_, _, _, _)
SetAll(m, names, t, par) ==
    IF names = <<>> THEN m
    ELSE SetAll(MapSet(m, Head(names), Node(t, Head(names), par)), Tail(names), t, par)

(***************************************************************************)
(* resolveDependencies.  The state of a traversal is the Map, the calls    *)
(* made so far and the exception thrown, if any.                           *)
(***************************************************************************)
\* A traversal that also descends into the helpers a unit declares.
RecursionTargetsWithUtils(item) == item.hooks \o item.utils

\* for (const hook of item.hooks) resolveDependency(hook)
RecursionTargets(item) == item.hooks

\* Keeps the first parent recorded for a name.
RecordItemFirstWins(m, hook, item) ==
    LET keep(mm, names, t) ==
            SetAll(mm, SelectSeq(names, LAMBDA n : ~MapHas(mm, n)), t, item.name)
    IN keep(keep(keep(keep(m, <<hook>>, "hook"), item.utils, "util"),
                 item.local, "local"), item.packages, "package")

\* Lines 23-26: the unit itself, then its utils, local helpers and packages.
RecordItem(m, hook, item) ==
    SetAll(SetAll(SetAll(MapSet(m, hook, Node("hook", hook, item.name)),
                         item.utils, "util", item.name),
                  item.local, "local", item.name),
           item.packages, "package", item.name)

RECURSIVE ResolveDependency(_, _, _, _)
RECURSIVE ResolveEach(_, _, _, _)

\* resolveDependency(hook), called with `depth` frames already on the stack.
ResolveDependency(reg, hook, st, depth) ==
    IF st.error # "" THEN st
    ELSE IF depth >= MaxStack
    THEN [st EXCEPT !.error = "RangeError"]
    ELSE IF hook \notin DOMAIN reg
    THEN [st EXCEPT !.calls = Append(@, hook), !.error = "TypeError"]
    ELSE LET item == reg[hook]
             recorded == [st EXCEPT !.calls = Append(@, hook),
                                    !.map = RecordItem(@, hook, item)]
         IN ResolveEach(reg, RecursionTargets(item), recorded, depth + 1)

ResolveEach(reg, hooks, st, depth) ==
    IF hooks = <<>> \/ st.error # "" THEN st
    ELSE ResolveEach(reg, Tail(hooks), ResolveDependency(reg, Head(hooks), st, depth), depth)

resolveDependencies(reg, hooks) ==
    ResolveEach(reg, hooks, [map |-> <<>>, calls |-> <<>>, error |-> ""], 0)

(***************************************************************************)
(* Paths.                                                                  *)
(***************************************************************************)
\* What matchPath resolves the two aliases to.
HooksRoot == <<"hooks">>
UtilsRoot == <<"utils">>
\* matchPath found nothing (undefined).
NoPath == <<>>

\* REPO_URLS[language.toUpperCase()]
RepoUrl(language) == IF language = "ts" THEN "REPO_URLS.TS" ELSE "REPO_URLS.JS"

\* config.typescript ? 'ts' : 'js'
Language(cfg) == IF cfg.typescript THEN "ts" ELSE "js"

Front(s) == SubSeq(s, 1, Len(s) - 1)
Last(s) == s[Len(s)]

\* `${root}/${filePath}.${language}`
WithExt(root, filePath, language) ==
    root \o Front(filePath) \o <<Last(filePath) \o "." \o language>>

\* path.dirname: "." for a path of one segment.
Dirname(p) == IF Len(p) <= 1 THEN <<".">> ELSE Front(p)

\* A JavaScript string is truthy unless it is empty.
Truthy(p) == p # <<>>

(***************************************************************************)
(* The file plans, lines 136-168.                                          *)
(***************************************************************************)
PlanRecord(n, t, dir, reg, ind, fp) ==
    [name |-> n, type |-> t, directoryPath |-> dir, registryPath |-> reg,
     indexPath |-> ind, filePath |-> fp]

\* A helper planned under the hooks root.
UtilPlanInHooks(dep, language, ph, pu) ==
    PlanRecord(dep.name, dep.type,
               WithExt(ph, <<dep.name>>, language),
               WithExt(<<RepoUrl(language), "utils", "helpers">>, <<dep.name>>, language),
               WithExt(ph, <<"index">>, language),
               <<dep.name>>)

\* The unit's file path is its bare name.
HookPlanByName(dep, language, ph, pu) ==
    PlanRecord(dep.name, dep.type,
               WithExt(ph, <<dep.name, dep.name>>, language),
               WithExt(<<RepoUrl(language), "hooks">>, <<dep.name, dep.name>>, language),
               WithExt(ph, <<"index">>, language),
               <<dep.name>>)

\* Lines 138-144.
HookPlan(dep, language, ph, pu) ==
    PlanRecord(dep.name, dep.type,
               WithExt(ph, <<dep.name, dep.name>>, language),
               WithExt(<<RepoUrl(language), "hooks">>, <<dep.name, dep.name>>, language),
               WithExt(ph, <<"index">>, language),
               <<dep.name, dep.name>>)

\* Lines 146-152.
UtilPlan(dep, language, ph, pu) ==
    PlanRecord(dep.name, dep.type,
               WithExt(pu, <<dep.name>>, language),
               WithExt(<<RepoUrl(language), "utils", "helpers">>, <<dep.name>>, language),
               WithExt(pu, <<"index">>, language),
               <<dep.name>>)

\* Lines 154-160.
LocalPlan(dep, language, ph, pu) ==
    PlanRecord(dep.name, dep.type,
               WithExt(ph \o <<dep.parent, "helpers">>, <<dep.name>>, language),
               WithExt(<<RepoUrl(language), "hooks", dep.parent, "helpers">>, <<dep.name>>, language),
               WithExt(ph \o <<dep.parent, "helpers">>, <<"index">>, language),
               <<dep.name>>)

PlanOf(dep, language, ph, pu) ==
    IF dep.type = "hook" THEN HookPlan(dep, language, ph, pu)
    ELSE IF dep.type = "util" THEN UtilPlan(dep, language, ph, pu)
    ELSE LocalPlan(dep, language, ph, pu)

\* Package nodes are planned as files too.
IsFileDependencyAll(dep) == TRUE

\* Line 162: a package returns undefined, which filter(Boolean) drops.
IsFileDependency(dep) == dep.type # "package"

\* The plans come out in the reverse of the Map's order.
BuildFilesReversed(deps, language, ph, pu) ==
    LET kept == SelectSeq(deps, IsFileDependency)
    IN [i \in 1..Len(kept) |-> PlanOf(kept[Len(kept) + 1 - i], language, ph, pu)]

\* Array.from(dependencies.values()).map(...).filter(Boolean)
BuildFiles(deps, language, ph, pu) ==
    LET kept == SelectSeq(deps, IsFileDependency)
    IN [i \in 1..Len(kept) |-> PlanOf(kept[i], language, ph, pu)]

\* packages.push(dependency.name), in the Map's order
BuildPackages(deps) ==
    LET pk == SelectSeq(deps, LAMBDA d : d.type = "package")
    IN [i \in 1..Len(pk) |-> pk[i].name]

(***************************************************************************)
(* The filesystem and the barrel index.                                    *)
(***************************************************************************)
NL == <<"nl", <<>>>>
Text == <<"text", <<>>>>
Export(filePath) == <<"export", filePath>>

\* `export * from './${filePath}';` without the line break.
ExportStatementNoBreak(filePath) == <<Export(filePath)>>

\* Line 199: `export * from './${filePath}';\n`
ExportStatement(filePath) == <<Export(filePath), NL>>

\* String.prototype.includes: `part` occurs in `text` as a substring.
Includes(text, part) ==
    \E i \in 1..(Len(text) + 1) :
        /\ i + Len(part) - 1 <= Len(text)
        /\ SubSeq(text, i, i + Len(part) - 1) = part

\* fs.existsSync
ExistsSync(dirs, fls, p) == p \in dirs \/ p \in DOMAIN fls

\* Every directory on the way to d, and d.
Ancestors(d) == { SubSeq(d, 1, k) : k \in 1..Len(d) }

\* Line 194: if (!fs.existsSync(directory)) fs.mkdirSync(directory, {recursive: true})
EnsureDirectory(dirs, fls, d) ==
    IF ExistsSync(dirs, fls, d) THEN dirs ELSE dirs \cup Ancestors(d)

\* fs.writeFileSync(path, data): replaces the file's content.
WriteFile(fls, p, data) ==
    [q \in DOMAIN fls \cup {p} |-> IF q = p THEN data ELSE fls[q]]

\* The statement is appended without looking at the index.
UpdateIndexAlways(fls, indexPath, filePath) ==
    LET created == IF indexPath \in DOMAIN fls THEN fls ELSE WriteFile(fls, indexPath, <<>>)
    IN WriteFile(created, indexPath, created[indexPath] \o ExportStatement(filePath))

\* The index is rewritten to hold the new statement only.
UpdateIndexTruncating(fls, indexPath, filePath) ==
    WriteFile(fls, indexPath, ExportStatement(filePath))

\* Lines 199-204.
UpdateIndex(fls, indexPath, filePath) ==
    LET exportStatement == ExportStatement(filePath)
        created == IF indexPath \in DOMAIN fls THEN fls ELSE WriteFile(fls, indexPath, <<>>)
        indexFileContent == created[indexPath]
    IN IF ~Includes(indexFileContent, exportStatement)
       THEN WriteFile(created, indexPath, indexFileContent \o exportStatement)
       ELSE created

\* The bytes the repository serves at a URL.
RemoteContent(url) == <<"bytes", url>>

\* The lines of an index: the token runs between line breaks; `open` is the
\* run after the last line break, a line only if it is not empty.
RECURSIVE LinesFrom(_, _, _)
LinesFrom(text, cur, acc) ==
    IF text = <<>> THEN [closed |-> acc, open |-> cur]
    ELSE IF Head(text) = NL THEN LinesFrom(Tail(text), <<>>, Append(acc, cur))
    ELSE LinesFrom(Tail(text), Append(cur, Head(text)), acc)

\* Every line of the text, the unterminated last one included.
Lines(text) ==
    LET l == LinesFrom(text, <<>>, <<>>)
    IN IF l.open = <<>> THEN l.closed ELSE Append(l.closed, l.open)

\* How many lines of the text are exactly the export statement of filePath.
CountLine(text, filePath) ==
    Cardinality({ i \in 1..Len(Lines(text)) : Lines(text)[i] = ExportStatementNoBreak(filePath) })

(***************************************************************************)
(* The inputs of a run.                                                    *)
(***************************************************************************)
Configs == {[typescript |-> TRUE], [typescript |-> FALSE]}
TsConfigs == {[typescript |-> TRUE]}

Options(h, a) == [hooks |-> h, all |-> a]

\* The command lines tried against the wide set of registries.
ResolveOptions ==
    { Options(h, FALSE) :
        h \in {<<>>, <<"a">>, <<"a", "b">>, <<"b", "a">>, <<Unknown>>} }
    \cup {Options(<<>>, TRUE)}

\* The command lines tried against the disks.
InstallOptions == {Options(<<"a">>, FALSE), Options(<<>>, FALSE), Options(<<Unknown>>, FALSE)}

\* What the multiselect prompt may return; <<>> also stands for a cancelled
\* prompt (undefined), which leaves selectedHooks empty as well.
Selections == {<<>>, <<"b">>, <<"c", "a">>}

\* The registries tried against the disks: "a" with any of its leaves and
\* at most the sub-unit "b", "b" with at most a local helper.
InstallRegistries ==
    { r \in Registries :
        /\ r["a"].hooks \in {<<>>, <<"b">>}
        /\ r["b"].hooks = <<>> /\ r["b"].packages = <<>>
        /\ r["c"].hooks = <<>> /\ r["c"].packages = <<>> }

HooksIndexTs == WithExt(HooksRoot, <<"index">>, "ts")
UnitFileTs == WithExt(HooksRoot, <<"a", "a">>, "ts")

\* What the hooks index may hold before the first run.
InitialIndexes ==
    { <<>>,
      ExportStatement(<<"a", "a">>),
      ExportStatementNoBreak(<<"a", "a">>),
      <<Text>> \o ExportStatement(<<"a", "a">>),
      <<Text, NL>>,
      <<Text, NL>> \o ExportStatement(<<"a", "a">>),
      ExportStatement(<<"b", "b">>) \o ExportStatementNoBreak(<<"a", "a">>) }

Disk(dirs, fls) == [dirs |-> dirs, files |-> fls]

\* A directory for every file there is.
WithParents(dirs, fls) ==
    dirs \cup UNION { Ancestors(Dirname(q)) : q \in DOMAIN fls }

EmptyDisk == Disk({}, <<>>)

\* The project before the first run: nothing at all, or the two roots with a
\* hooks index, with or without unit "a" already installed.
InitialDisks ==
    {EmptyDisk}
    \cup { Disk(WithParents({HooksRoot, UtilsRoot}, fls), fls) :
            fls \in { [q \in {HooksIndexTs} |-> content] : content \in InitialIndexes }
                    \cup { [q \in {HooksIndexTs, UnitFileTs} |->
                                IF q = UnitFileTs THEN <<"old">> ELSE content] :
                            content \in InitialIndexes } }

(***************************************************************************)
(* The handler.                                                            *)
(***************************************************************************)
(***************************************************************************)
(* The useOrientation hook.                                                *)
(***************************************************************************)
\* window.screen.orientation where the Screen Orientation API is missing.
Undefined == [undefined |-> TRUE]

OrientationTypes ==
    {"portrait-primary", "portrait-secondary", "landscape-primary", "landscape-secondary"}

Angles == {0, 90, 180, 270}

\* The values of UseOrientationReturn.
Orientations == [angle : Angles, type : OrientationTypes]

\* useState's initial value.
InitialOrientation == [angle |-> 0, type |-> "landscape-primary"]

\* The listener reads nothing and keeps the state it has.
onChangeKeeps(current, screen) == current

\* onChange: reads window.screen.orientation and sets the state to its
\* angle and type.
onChange(current, screen) == [angle |-> screen.angle, type |-> screen.type]

\* target?.addEventListener('change', cb): nothing on a missing target; a
\* callback is on an EventTarget's list at most once.
AddEventListener(target, ls, cb) == IF target = Undefined THEN ls ELSE ls \cup {cb}

\* The cleanup removes nothing.
RemoveNoListener(target, ls, cb) == ls

\* target?.removeEventListener('change', cb)
RemoveEventListener(target, ls, cb) == IF target = Undefined THEN ls ELSE ls \ {cb}

\* useIsomorphicLayoutEffect(effect, []): the effect runs once, when the
\* component is mounted.
EffectRuns ==
    /\ phase # "mounted"
    /\ mounts < MaxMounts
    /\ phase' = "mounted"
    /\ mounts' = mounts + 1

\* useIsomorphicLayoutEffect(effect, []): the function the effect returned
\* runs once, when the component is unmounted.
CleanupRuns ==
    /\ phase = "mounted"
    /\ phase' = "unmounted"
    /\ mounts' = mounts

\* The hook before its component is mounted, for the screens in Ss.
InitHook(Ss) ==
    /\ phase = "initial"
    /\ mounts = 0
    /\ orientation = InitialOrientation
    /\ screenOrientation \in Ss
    /\ listeners = {}
    /\ pending = 0

\* The component mounts: a fresh state, and the effect registers this
\* mount's onChange.
Mount ==
    /\ EffectRuns
    /\ orientation' = InitialOrientation
    /\ listeners' = AddEventListener(screenOrientation, listeners, mounts')
    /\ UNCHANGED <<screenOrientation, pending>>
    /\ UNCHANGED handlerVars

\* The component unmounts: the cleanup removes this mount's onChange.
Unmount ==
    /\ CleanupRuns
    /\ listeners' = RemoveEventListener(screenOrientation, listeners, mounts)
    /\ UNCHANGED <<orientation, screenOrientation, pending>>
    /\ UNCHANGED handlerVars

\* The screen turns: window.screen.orientation has a new value and a
\* `change` event is queued.
Rotate ==
    /\ screenOrientation # Undefined
    /\ pending < MaxPending
    /\ \E o \in Orientations \ {screenOrientation} : screenOrientation' = o
    /\ pending' = pending + 1
    /\ UNCHANGED <<phase, mounts, orientation, listeners>>
    /\ UNCHANGED handlerVars

\* A queued `change` event is delivered: the registered onChange of the
\* component's last mount runs.
Deliver ==
    /\ pending > 0
    /\ pending' = pending - 1
    /\ orientation' = IF mounts \in listeners
                      THEN onChange(orientation, screenOrientation)
                      ELSE orientation
    /\ UNCHANGED <<phase, mounts, screenOrientation, listeners>>
    /\ UNCHANGED handlerVars

InitWith(Os, Ds) ==
    /\ pc = "getConfig"
    /\ options \in Os
    /\ config = NoConfig
    /\ registry = NoRegistry
    /\ selectedHooks = <<>>
    /\ pathToLoadHooks = NoPath
    /\ pathToLoadUtils = NoPath
    /\ dependencies = <<>>
    /\ calls = <<>>
    /\ error = ""
    /\ exitCode = -1
    /\ files = <<>>
    /\ packages = <<>>
    /\ idx = 1
    /\ prompted = <<>>
    /\ overwrite = FALSE
    /\ skipped = <<>>
    /\ requests = <<>>
    /\ \E d \in Ds : fsDirs = d.dirs /\ fsFiles = d.files
    /\ runs = 1

Init == InitWith(InstallOptions, InitialDisks) /\ InitHook({Undefined})

InitResolve == InitWith(ResolveOptions, {EmptyDisk}) /\ InitHook({Undefined})

\* Every exit reports success.
ExitZero(code) == pc' = "exit" /\ exitCode' = 0

\* process.exit(code)
Exit(code) == pc' = "exit" /\ exitCode' = code

\* An exception nobody catches ends the process with status 1.
Throw(e) == pc' = "crashed" /\ error' = e /\ exitCode' = 1

\* Lines 72-78.
GetConfig(Cs) ==
    /\ pc = "getConfig"
    /\ \E c \in Cs \cup {NoConfig} :
        /\ config' = c
        /\ IF c = NoConfig THEN Exit(1) ELSE pc' = "fetchRegistry" /\ exitCode' = exitCode
    /\ UNCHANGED <<options, registry, selectedHooks, pathToLoadHooks, pathToLoadUtils,
                   dependencies, calls, error, files, packages, idx, prompted,
                   overwrite, skipped, requests, fsDirs, fsFiles, runs>>
    /\ UNCHANGED hookVars

\* Lines 80-89.
FetchRegistry(Rs) ==
    /\ pc = "fetchRegistry"
    /\ \E r \in Rs \cup {NoRegistry, RegistryRejected} :
        IF r = RegistryRejected
        THEN Throw("RegistryFetchError") /\ UNCHANGED <<registry, selectedHooks>>
        ELSE /\ registry' = r
             /\ error' = error
             /\ IF r = NoRegistry
                THEN Exit(1) /\ selectedHooks' = selectedHooks
                ELSE /\ selectedHooks' = IF options.all THEN ObjectKeys(r) ELSE options.hooks
                     /\ pc' = IF selectedHooks' = <<>> THEN "selectPrompt" ELSE "preflight"
                     /\ exitCode' = exitCode
    /\ UNCHANGED <<options, config, pathToLoadHooks, pathToLoadUtils, dependencies,
                   calls, files, packages, idx, prompted, overwrite, skipped,
                   requests, fsDirs, fsFiles, runs>>
    /\ UNCHANGED hookVars

\* Lines 90-103: the multiselect prompt returns.
SelectHooks ==
    /\ pc = "selectPrompt"
    /\ \E hooks \in Selections : selectedHooks' = hooks
    /\ pc' = "preflight"
    /\ UNCHANGED <<options, config, registry, pathToLoadHooks, pathToLoadUtils,
                   dependencies, calls, error, exitCode, files, packages, idx,
                   prompted, overwrite, skipped, requests, fsDirs, fsFiles, runs>>
    /\ UNCHANGED hookVars

\* Line 107: some selected hook is no key of the registry.
SomeHookNotFound == \E i \in 1..Len(selectedHooks) : selectedHooks[i] \notin DOMAIN registry

\* Lines 105-133.
Preflight ==
    /\ pc = "preflight"
    /\ \E loaded \in BOOLEAN, ph \in {HooksRoot, NoPath}, pu \in {UtilsRoot, NoPath} :
        IF ~options.all /\ SomeHookNotFound
        THEN Exit(1) /\ UNCHANGED <<error, pathToLoadHooks, pathToLoadUtils>>
        ELSE IF selectedHooks = <<>>
        THEN Exit(0) /\ UNCHANGED <<error, pathToLoadHooks, pathToLoadUtils>>
        ELSE IF ~loaded
        THEN Throw("Error") /\ UNCHANGED <<pathToLoadHooks, pathToLoadUtils>>
        ELSE /\ pathToLoadHooks' = ph
             /\ pathToLoadUtils' = pu
             /\ error' = error
             /\ IF ~Truthy(ph) \/ ~Truthy(pu)
                THEN Exit(1)
                ELSE pc' = "resolve" /\ exitCode' = exitCode
    /\ UNCHANGED <<options, config, registry, selectedHooks, dependencies, calls,
                   files, packages, idx, prompted, overwrite, skipped, requests,
                   fsDirs, fsFiles, runs>>
    /\ UNCHANGED hookVars

\* Lines 135-171: resolve, build the plans, start the spinner.
Resolve ==
    /\ pc = "resolve"
    /\ LET r == resolveDependencies(registry, selectedHooks)
       IN /\ calls' = r.calls
          /\ IF r.error # ""
             THEN Throw(r.error) /\ UNCHANGED <<dependencies, files, packages>>
             ELSE /\ dependencies' = r.map
                  /\ files' = BuildFiles(r.map, Language(config), pathToLoadHooks, pathToLoadUtils)
                  /\ packages' = BuildPackages(r.map)
                  /\ pc' = "loop"
                  /\ UNCHANGED <<error, exitCode>>
    /\ UNCHANGED <<options, config, registry, selectedHooks, pathToLoadHooks,
                   pathToLoadUtils, idx, prompted, overwrite, skipped, requests,
                   fsDirs, fsFiles, runs>>
    /\ UNCHANGED hookVars

\* Lines 194-196: make the directory, ask for the file.
StartFetch(file) ==
    /\ fsDirs' = EnsureDirectory(fsDirs, fsFiles, Dirname(file.directoryPath))
    /\ requests' = Append(requests, file.registryPath)
    /\ pc' = "fetch"

\* Line 177: if (directory)
NeedsPrompt(directory) == Truthy(directory)

\* Lines 172-184: the next plan; the overwrite prompt is shown.
BeginPlan ==
    /\ pc = "loop"
    /\ idx <= Len(files)
    /\ LET file == files[idx]
       IN IF NeedsPrompt(Dirname(file.directoryPath))
          THEN /\ prompted' = Append(prompted, file.name)
               /\ pc' = "prompt"
               /\ UNCHANGED <<requests, fsDirs>>
          ELSE StartFetch(file) /\ prompted' = prompted
    /\ UNCHANGED <<options, config, registry, selectedHooks, pathToLoadHooks,
                   pathToLoadUtils, dependencies, calls, error, exitCode, files,
                   packages, idx, overwrite, skipped, fsFiles, runs>>
    /\ UNCHANGED hookVars

\* A declined plan still gets its directory.
DeclineEffectMkdir(file) ==
    /\ fsDirs' = EnsureDirectory(fsDirs, fsFiles, Dirname(file.directoryPath))
    /\ skipped' = Append(skipped, file.name)
    /\ idx' = idx + 1
    /\ pc' = "loop"
    /\ UNCHANGED <<requests, fsFiles>>

\* Lines 186-189: the skip notice, then `continue`.
DeclineEffect(file) ==
    /\ skipped' = Append(skipped, file.name)
    /\ idx' = idx + 1
    /\ pc' = "loop"
    /\ UNCHANGED <<requests, fsDirs, fsFiles>>

\* The prompt returns without a yes (a no, or the prompt was cancelled).
Decline ==
    /\ pc = "prompt"
    /\ overwrite' = FALSE
    /\ DeclineEffect(files[idx])
    /\ UNCHANGED <<options, config, registry, selectedHooks, pathToLoadHooks,
                   pathToLoadUtils, dependencies, calls, error, exitCode, files,
                   packages, prompted, runs>>
    /\ UNCHANGED hookVars

\* Lines 191-196: the prompt returns yes.
Accept ==
    /\ pc = "prompt"
    /\ overwrite' = TRUE
    /\ StartFetch(files[idx])
    /\ UNCHANGED <<options, config, registry, selectedHooks, pathToLoadHooks,
                   pathToLoadUtils, dependencies, calls, error, exitCode, files,
                   packages, idx, prompted, skipped, fsFiles, runs>>
    /\ UNCHANGED hookVars

\* Lines 196-205: the file arrives, is written and exported from the index.
FetchOk ==
    /\ pc = "fetch"
    /\ LET file == files[idx]
       IN fsFiles' = UpdateIndex(
                        WriteFile(fsFiles, file.directoryPath, RemoteContent(file.registryPath)),
                        file.indexPath, file.filePath)
    /\ idx' = idx + 1
    /\ pc' = "loop"
    /\ UNCHANGED <<options, config, registry, selectedHooks, pathToLoadHooks,
                   pathToLoadUtils, dependencies, calls, error, exitCode, files,
                   packages, prompted, overwrite, skipped, requests, fsDirs, runs>>
    /\ UNCHANGED hookVars

\* The failure is caught per plan and the loop goes on.
FetchFailContinues ==
    /\ pc = "fetch"
    /\ error' = "FetchError"
    /\ idx' = idx + 1
    /\ pc' = "loop"
    /\ UNCHANGED <<options, config, registry, selectedHooks, pathToLoadHooks,
                   pathToLoadUtils, dependencies, calls, exitCode, files, packages,
                   prompted, overwrite, skipped, requests, fsDirs, fsFiles, runs>>
    /\ UNCHANGED hookVars

\* Line 196: fetches.get rejects and nothing catches it.
FetchFail ==
    /\ pc = "fetch"
    /\ Throw("FetchError")
    /\ UNCHANGED <<options, config, registry, selectedHooks, pathToLoadHooks,
                   pathToLoadUtils, dependencies, calls, files, packages, idx,
                   prompted, overwrite, skipped, requests, fsDirs, fsFiles, runs>>
    /\ UNCHANGED hookVars

\* Line 207: spinner.succeed('Done.')
Finish ==
    /\ pc = "loop"
    /\ idx > Len(files)
    /\ pc' = "done"
    /\ exitCode' = 0
    /\ UNCHANGED <<options, config, registry, selectedHooks, pathToLoadHooks,
                   pathToLoadUtils, dependencies, calls, error, files, packages,
                   idx, prompted, overwrite, skipped, requests, fsDirs, fsFiles, runs>>
    /\ UNCHANGED hookVars

\* The command is run again on the same project with the same arguments,
\* configuration, registry and answers to lines 66-133: lines 135-168 compute
\* the same plans, and the install loop starts over.
Rerun ==
    /\ pc = "done"
    /\ runs < MaxRuns
    /\ runs' = runs + 1
    /\ pc' = "loop"
    /\ idx' = 1
    /\ exitCode' = -1
    /\ prompted' = <<>>
    /\ skipped' = <<>>
    /\ requests' = <<>>
    /\ overwrite' = FALSE
    /\ UNCHANGED <<options, config, registry, selectedHooks, pathToLoadHooks,
                   pathToLoadUtils, dependencies, calls, error, files, packages,
                   fsDirs, fsFiles>>
    /\ UNCHANGED hookVars

Install ==
    \/ BeginPlan
    \/ Decline
    \/ Accept
    \/ FetchOk
    \/ FetchFail
    \/ Finish
    \/ Rerun

Next ==
    \/ GetConfig(TsConfigs)
    \/ FetchRegistry(InstallRegistries)
    \/ SelectHooks
    \/ Preflight
    \/ Resolve
    \/ Install

\* The handler up to the plans, over every registry and both languages.
NextResolve ==
    \/ GetConfig(Configs)
    \/ FetchRegistry(Registries)
    \/ SelectHooks
    \/ Preflight
    \/ Resolve

\* The hook in a browser: the command is not running.
InitOrientation ==
    /\ InitWith({Options(<<>>, FALSE)}, {EmptyDisk})
    /\ InitHook(Orientations \cup {Undefined})

NextOrientation ==
    \/ Mount
    \/ Unmount
    \/ Rotate
    \/ Deliver

Spec == Init /\ [][Next]_vars

SpecResolve == InitResolve /\ [][NextResolve]_vars

SpecOrientation == InitOrientation /\ [][NextOrientation]_vars

(***************************************************************************)
(* What the claims speak of, stated from the registry alone.               *)
(***************************************************************************)
\* The names one `units` (hooks) edge away from the units in S.
UnitSuccessors(reg, S) ==
    UNION { Range(reg[u].hooks) : u \in S \cap DOMAIN reg }

RECURSIVE UnitClosure(_, _)
UnitClosure(reg, S) ==
    LET T == S \cup UnitSuccessors(reg, S)
    IN IF T = S THEN S ELSE UnitClosure(reg, T)

\* The names reachable from the roots by `units` edges, the roots included.
ReachableUnits(reg, roots) == UnitClosure(reg, Range(roots))

\* The helpers, local helpers and packages a unit declares.
Leaves(reg, u) ==
    Range(reg[u].utils) \cup Range(reg[u].local) \cup Range(reg[u].packages)

\* Every unit reachable from the roots, and every leaf such a unit declares.
ReachableNames(reg, roots) ==
    ReachableUnits(reg, roots)
    \cup UNION { Leaves(reg, u) : u \in ReachableUnits(reg, roots) \cap DOMAIN reg }

\* Every `units` edge ends at a unit of the registry.
ClosedRegistry(reg) == \A u \in DOMAIN reg : Range(reg[u].hooks) \subseteq DOMAIN reg

\* No unit reaches itself along `units` edges.
AcyclicRegistry(reg) ==
    \A u \in DOMAIN reg : u \notin UnitClosure(reg, UnitSuccessors(reg, {u}))

IsDag(reg) == ClosedRegistry(reg) /\ AcyclicRegistry(reg)

\* resolveDependencies has returned its Map.
ResolvedOk == pc = "loop" /\ runs = 1 /\ idx = 1

\* resolveDependencies has returned or thrown.
ResolveEnded == ResolvedOk \/ (pc = "crashed" /\ error \in {"TypeError", "RangeError"})

\* The last position of `calls` at which P holds.
LastCall(P(_)) ==
    CHOOSE i \in 1..Len(calls) :
        P(calls[i]) /\ \A j \in (i + 1)..Len(calls) : ~P(calls[j])

(* C1: for a registry whose units edges form a DAG and roots that are units
   of it, resolveDependencies returns a Map that holds exactly the names
   reachable from the roots (units and their helpers, local helpers and
   packages), each name once. *)
C1_Closure ==
    (/\ ResolveEnded
     /\ IsDag(registry)
     /\ Range(selectedHooks) \subseteq DOMAIN registry)
    => /\ pc = "loop"
       /\ MapKeys(dependencies) = ReachableNames(registry, selectedHooks)
       /\ Cardinality(MapKeys(dependencies)) = Len(dependencies)

\* A chain a -> b -> c resolved from "a", with a leaf two units share.
C1_Witness ==
    /\ ResolvedOk
    /\ IsDag(registry)
    /\ selectedHooks = <<"a">>
    /\ registry["a"].hooks = <<"b">> /\ registry["b"].hooks = <<"c">>
    /\ registry["a"].utils = <<"x">> /\ registry["b"].local = <<"x">>
    /\ registry["c"].packages = <<"p">>
    /\ MapKeys(dependencies) = {"a", "b", "c", "x", "p"}

(* C2: resolving from "a" in a registry where "a" lists "b" and "b" lists
   "a" ends by reporting CycleDetected, and no traversal ever exhausts the
   call stack. *)
C2_CycleSafety ==
    /\ error # "RangeError"
    /\ (/\ ResolveEnded
        /\ selectedHooks = <<"a">>
        /\ registry["a"].hooks = <<"b">>
        /\ registry["b"].hooks = <<"a">>)
       => error = "CycleDetected"

(* C3: when a root, or a name in the units of a unit the traversal reaches,
   is no key of the registry, the run ends with the UnknownUnit failure
   (for a root, the "not found in the registry" exit of line 108): no
   missing entry is dereferenced and no graph is returned. *)
C3_UnknownUnit ==
    /\ error # "TypeError"
    /\ (/\ pc \in {"loop", "crashed", "exit", "prompt", "fetch", "done"}
        /\ registry # NoRegistry
        /\ selectedHooks # <<>>
        /\ ~(ReachableUnits(registry, selectedHooks) \subseteq DOMAIN registry))
       => /\ dependencies = <<>>
          /\ \/ error = "UnknownUnit"
             \/ pc = "exit" /\ exitCode = 1

\* Unit u declares n as a helper, local helper or package.
Declares(u, n) == u \in DOMAIN registry /\ n \in Leaves(registry, u)

\* Visiting unit u sets the Map entry of n: its own, or a leaf's.
Writes(u, n) == u = n \/ Declares(u, n)

(* C4 as claimed: a leaf name that two different visited units declare has,
   after resolution, the last visited unit that declared it as its parent. *)
C4_ParentOverwrite ==
    ResolvedOk =>
        \A n \in MapKeys(dependencies) :
            (\E i, j \in 1..Len(calls) :
                i < j /\ calls[i] # calls[j] /\ Declares(calls[i], n) /\ Declares(calls[j], n))
            => MapGet(dependencies, n).parent
                  = calls[LastCall(LAMBDA u : Declares(u, n))]

(* C4 as amended: the parent of every node is the name of the last visited
   unit that set it, where a visited unit sets its own node and the nodes of
   the leaves it declares; so a leaf declared by A then B has parent B unless
   the name is itself a unit visited after B. *)
C4_ParentIsLastWriter ==
    ResolvedOk =>
        \A n \in MapKeys(dependencies) :
            MapGet(dependencies, n).parent
                = registry[calls[LastCall(LAMBDA u : Writes(u, n))]].name

\* "x" declared by "a" and by "b", visited in that order: the parent is "b".
C4_Witness ==
    /\ ResolvedOk
    /\ calls = <<"a", "b">>
    /\ Declares("a", "x") /\ Declares("b", "x")
    /\ MapGet(dependencies, "x").parent = "b"

(* C5: resolveDependency is called only with root names and names listed in
   the hooks of a unit it was called with; a unit that is referenced only as
   a helper, local helper or package is not visited, so it is not recorded
   as a unit. *)
C5_NoRecursionIntoLeaves ==
    /\ Range(calls) \subseteq ReachableUnits(registry, selectedHooks)
    /\ ResolvedOk =>
        /\ MapKeys(dependencies) \subseteq ReachableNames(registry, selectedHooks)
        /\ \A u \in DOMAIN registry \ ReachableUnits(registry, selectedHooks) :
              MapHas(dependencies, u) => MapGet(dependencies, u).type # "hook"

\* "c" is a unit with a package of its own and a helper of "a": resolving
\* "a" records the helper "c" and not the package of unit "c".
C5_Witness ==
    /\ ResolvedOk
    /\ selectedHooks = <<"a">>
    /\ registry["a"].utils = <<"c">>
    /\ registry["c"].packages = <<"p">>
    /\ MapHas(dependencies, "c")
    /\ "c" \notin Range(calls)
    /\ ~MapHas(dependencies, "p")

(* C6: every node of the resolved graph is in exactly one of the file plans
   and the package list: the package nodes are exactly the package list, the
   other nodes are exactly the file plans, and the two counts add up to the
   size of the graph. *)
C6_PartitionComplete ==
    ResolvedOk =>
        /\ Len(files) + Len(packages) = Len(dependencies)
        /\ \A i \in 1..Len(dependencies) :
            LET d == dependencies[i]
                plans == { j \in 1..Len(files) : files[j].name = d.name }
                listed == { j \in 1..Len(packages) : packages[j] = d.name }
            IN IF d.type = "package"
               THEN Cardinality(listed) = 1 /\ plans = {}
               ELSE /\ Cardinality(plans) = 1 /\ listed = {}
                    /\ \A j \in plans : files[j].type = d.type
        /\ Range(packages) = { dependencies[i].name :
                                 i \in { k \in 1..Len(dependencies) : dependencies[k].type = "package" } }

\* A graph with units, a helper and a package.
C6_Witness ==
    /\ ResolvedOk
    /\ Len(packages) >= 1
    /\ Len(files) >= 3
    /\ \E i \in 1..Len(files) : files[i].type = "util"

\* `${n}.${ext}`
FileName(n, ext) == n \o "." \o ext

(* C7: the plan of a unit node n has destination {hooksRoot}/n/n.ext, index
   {hooksRoot}/index.ext and source {repoBaseURL}/hooks/n/n.ext; the plan of
   a helper node n has destination {utilsRoot}/n.ext, index
   {utilsRoot}/index.ext and source {repoBaseURL}/utils/helpers/n.ext; every
   unit and helper node has such a plan.  A unit with one helper, no local
   helper and one package, resolved alone, yields one unit plan, one helper
   plan, no local-helper plan and that package. *)
C7_PlanPaths ==
    ResolvedOk =>
        LET ext == Language(config)
            base == RepoUrl(ext)
            PlanFor(d) == CHOOSE j \in 1..Len(files) : files[j].name = d.name
        IN /\ \A i \in 1..Len(dependencies) :
                LET d == dependencies[i] n == d.name
                IN /\ d.type = "hook" =>
                        /\ files[PlanFor(d)].directoryPath = pathToLoadHooks \o <<n, FileName(n, ext)>>
                        /\ files[PlanFor(d)].indexPath = pathToLoadHooks \o <<FileName("index", ext)>>
                        /\ files[PlanFor(d)].registryPath = <<base, "hooks", n, FileName(n, ext)>>
                   /\ d.type = "util" =>
                        /\ files[PlanFor(d)].directoryPath = pathToLoadUtils \o <<FileName(n, ext)>>
                        /\ files[PlanFor(d)].indexPath = pathToLoadUtils \o <<FileName("index", ext)>>
                        /\ files[PlanFor(d)].registryPath = <<base, "utils", "helpers", FileName(n, ext)>>
           /\ (/\ selectedHooks = <<"a">>
               /\ registry["a"].hooks = <<>> /\ registry["a"].utils = <<"c">>
               /\ registry["a"].local = <<>> /\ registry["a"].packages = <<"x">>)
              => /\ Len(files) = 2
                 /\ files[1].type = "hook" /\ files[1].name = "a"
                 /\ files[2].type = "util" /\ files[2].name = "c"
                 /\ packages = <<"x">>

\* Unit "a" (helper "c", package "x") resolved alone, in TypeScript.
C7_Witness ==
    /\ ResolvedOk
    /\ config.typescript
    /\ selectedHooks = <<"a">>
    /\ registry["a"] = Entry("a", <<>>, <<"c">>, <<>>, <<"x">>)
    /\ files[1].directoryPath = <<"hooks", "a", "a.ts">>
    /\ files[2].directoryPath = <<"utils", "c.ts">>
    /\ packages = <<"x">>

\* The index files the plans of this run export from.
PlanIndexes == { files[i].indexPath : i \in 1..Len(files) }

\* The export specifiers the plans of this run append.
PlanSpecifiers == { files[i].filePath : i \in 1..Len(files) }

\* The newline-terminated lines of a text.
ClosedLines(text) == LinesFrom(text, <<>>, <<>>).closed

\* Some line of the text, terminated or not, is the export statement.
HasLine(text, filePath) == CountLine(text, filePath) >= 1

\* Some newline-terminated line of the text is the export statement.
HasClosedLine(text, filePath) ==
    \E i \in 1..Len(ClosedLines(text)) : ClosedLines(text)[i] = ExportStatementNoBreak(filePath)

\* No index of the run holds the export line of a plan more than once.
NoDuplicateExports(fls) ==
    \A q \in PlanIndexes \cap DOMAIN fls :
        \A fp \in PlanSpecifiers : CountLine(fls[q], fp) <= 1

\* The step in which the fetched file of plan idx is written and indexed.
InstallStep == pc = "fetch" /\ pc' = "loop"

(* C8 as claimed: installing a plan whose index already holds the line
   `export * from './{specifier}';` leaves the index as it is, and an index
   without a duplicated export line never gets one. *)
C8_IdempotentIndexing ==
    [][/\ InstallStep =>
            LET ip == files[idx].indexPath
            IN (ip \in DOMAIN fsFiles /\ HasLine(fsFiles[ip], files[idx].filePath))
               => fsFiles'[ip] = fsFiles[ip]
       /\ NoDuplicateExports(fsFiles) => NoDuplicateExports(fsFiles')]_vars

(* C8 as amended: installing a plan whose index already holds the
   newline-terminated line `export * from './{specifier}';` leaves the index
   as it is, and an index without a duplicated export line never gets one,
   over any number of runs. *)
C8_IdempotentTerminatedLine ==
    [][/\ InstallStep =>
            LET ip == files[idx].indexPath
            IN (ip \in DOMAIN fsFiles /\ HasClosedLine(fsFiles[ip], files[idx].filePath))
               => fsFiles'[ip] = fsFiles[ip]
       /\ NoDuplicateExports(fsFiles) => NoDuplicateExports(fsFiles')]_vars

\* Unit "a" was installed into a project whose hooks index already held its
\* export line below another line: the index is as it was.
C8_Witness ==
    /\ runs = 1
    /\ pc = "loop"
    /\ idx = 2
    /\ requests = <<files[1].registryPath>>
    /\ files[1].filePath = <<"a", "a">>
    /\ fsFiles[files[1].directoryPath] = RemoteContent(files[1].registryPath)
    /\ fsFiles[files[1].indexPath] = <<Text, NL>> \o ExportStatement(<<"a", "a">>)

(* C9: the overwrite prompt is shown for a plan if and only if the plan's
   destination directory is on disk when the plan is taken up; a plan whose
   directory is not there is installed without a prompt. *)
C9_ConflictCheck ==
    [][(pc = "loop" /\ pc' \in {"prompt", "fetch"}) =>
            (pc' = "prompt"
                <=> ExistsSync(fsDirs, fsFiles, Dirname(files[idx].directoryPath)))]_vars

(* C10: a step that declines the overwrite prompt of a plan (it logs the
   skip notice) creates no directory, fetches nothing, leaves every file on
   disk as it is, the plan's destination and index included, and moves to
   the next plan. *)
C10_DeclineSkips ==
    [][(pc = "prompt" /\ skipped' # skipped) =>
            /\ skipped' = Append(skipped, files[idx].name)
            /\ fsDirs' = fsDirs
            /\ fsFiles' = fsFiles
            /\ requests' = requests
            /\ idx' = idx + 1
            /\ pc' = "loop"
            /\ files' = files]_vars

\* The first plan was declined on a project without its directory, and the
\* run went on to install the second plan and ended.
C10_Witness ==
    /\ pc = "done"
    /\ runs = 1
    /\ Len(files) = 2
    /\ skipped = <<files[1].name>>
    /\ prompted = <<files[1].name, files[2].name>>
    /\ requests = <<files[2].registryPath>>
    /\ ~ExistsSync(fsDirs, fsFiles, Dirname(files[1].directoryPath))
    /\ files[2].directoryPath \in DOMAIN fsFiles

\* The handler has not reached the install loop yet.
InPreflight == pc \in {"getConfig", "fetchRegistry", "selectPrompt", "preflight", "resolve"}

\* The step finds one of the pre-flight failures: no configuration, no
\* registry, a requested hook that is no key of the registry (without --all),
\* or a root directory matchPath cannot resolve.
PreflightFailure ==
    \/ pc = "getConfig" /\ config' = NoConfig
    \/ pc = "fetchRegistry" /\ (registry' = NoRegistry \/ error' = "RegistryFetchError")
    \/ pc = "preflight" /\ ~options.all /\ SomeHookNotFound
    \/ /\ pc = "preflight"
       /\ <<pathToLoadHooks', pathToLoadUtils'>> # <<pathToLoadHooks, pathToLoadUtils>>
       /\ (pathToLoadHooks' = NoPath \/ pathToLoadUtils' = NoPath)

(* C11: a step that finds the configuration missing, the registry
   unavailable, a requested hook absent from the registry (without --all) or
   a root directory unresolved ends the run with a non-zero exit status, and
   no step before the install loop creates a directory, writes a file,
   changes an index or fetches a file. *)
C11_PreflightAbort ==
    [][/\ InPreflight => (fsDirs' = fsDirs /\ fsFiles' = fsFiles /\ requests' = requests)
       /\ PreflightFailure => (pc' \in {"exit", "crashed"} /\ exitCode' = 1)]_vars

\* The run ended because hook "z" is not in the registry, on a project that
\* has files: they are as they were.
C11_Witness ==
    /\ pc = "exit"
    /\ exitCode = 1
    /\ selectedHooks = <<Unknown>>
    /\ registry # NoRegistry
    /\ requests = <<>>
    /\ Disk(fsDirs, fsFiles) \in InitialDisks \ {EmptyDisk}

\* Plan j's file holds what its URL serves and its index holds its export
\* statement.
PlanInstalled(j) ==
    /\ files[j].directoryPath \in DOMAIN fsFiles
    /\ fsFiles[files[j].directoryPath] = RemoteContent(files[j].registryPath)
    /\ files[j].indexPath \in DOMAIN fsFiles
    /\ Includes(fsFiles[files[j].indexPath], ExportStatement(files[j].filePath))

\* After the fetch of plan idx failed: the plans fetched before it in this
\* run are installed, and no later plan was fetched.
FailedAtIdx ==
    /\ requests # <<>>
    /\ Last(requests) = files[idx].registryPath
    /\ \A j \in 1..(idx - 1) :
          files[j].registryPath \in Range(requests) => PlanInstalled(j)
    /\ \A j \in (idx + 1)..Len(files) : files[j].registryPath \notin Range(requests)

(* C12: when the fetch of plan k fails the run ends there: the failing step
   writes nothing (plan k's file and index are as they were), the plans
   installed before k keep their file and export line, no plan after k is
   fetched, and no step follows. *)
C12_NoRollback ==
    [][/\ (error = "" /\ error' = "FetchError") =>
            /\ pc' = "crashed"
            /\ exitCode' = 1
            /\ fsDirs' = fsDirs
            /\ fsFiles' = fsFiles
            /\ requests' = requests
            /\ idx' = idx
            /\ FailedAtIdx'
       /\ error # "FetchError"]_vars

\* The fetch of the second of three or more plans failed after the first was
\* installed: the first is in place, the second has no file.
C12_Witness ==
    /\ pc = "crashed"
    /\ error = "FetchError"
    /\ runs = 1
    /\ idx = 2
    /\ Len(files) >= 3
    /\ requests = <<files[1].registryPath, files[2].registryPath>>
    /\ PlanInstalled(1)
    /\ files[2].directoryPath \notin DOMAIN fsFiles

\* Content of the file at p before the step, the empty text when it is absent.
OldContent(p) == IF p \in DOMAIN fsFiles THEN fsFiles[p] ELSE <<>>

\* The install step of the current plan changed the text of its index.
IndexAppended ==
    /\ InstallStep
    /\ fsFiles'[files[idx].indexPath] # OldContent(files[idx].indexPath)

(* C13: the line appended to the barrel index after a unit or a helper named n
   is installed is `export * from './n';`. *)
C13_ExportSpecifier ==
    [][(IndexAppended /\ files[idx].type \in {"hook", "util"}) =>
          fsFiles'[files[idx].indexPath] =
              OldContent(files[idx].indexPath) \o ExportStatement(<<files[idx].name>>)]_vars

(* C13 as the code has it: the line appended for a unit named n is
   `export * from './n/n';` (the unit lives in its own directory n under the
   hooks root), and the line appended for a helper named n is
   `export * from './n';`. *)
C13_ExportSpecifierIsFilePath ==
    [][IndexAppended =>
          /\ files[idx].type = "hook" =>
                fsFiles'[files[idx].indexPath] =
                    OldContent(files[idx].indexPath)
                        \o ExportStatement(<<files[idx].name, files[idx].name>>)
          /\ files[idx].type = "util" =>
                fsFiles'[files[idx].indexPath] =
                    OldContent(files[idx].indexPath)
                        \o ExportStatement(<<files[idx].name>>)]_vars

\* Unit a and then helper x were installed on a disk without indexes: the
\* hooks index holds the line for './a/a' and the utils index the line for './x'.
C13_Witness ==
    /\ pc = "loop"
    /\ runs = 1
    /\ idx = 3
    /\ files[1].type = "hook" /\ files[1].name = "a"
    /\ files[2].type = "util" /\ files[2].name = "x"
    /\ skipped = <<>>
    /\ fsFiles[files[1].indexPath] = ExportStatement(<<"a", "a">>)
    /\ fsFiles[files[2].indexPath] = ExportStatement(<<"x">>)

\* The installer has its plans: it is in the loop, has finished it, or died
\* in it.
Installing ==
    \/ pc \in {"loop", "prompt", "fetch", "done"}
    \/ pc = "crashed" /\ error = "FetchError"

\* Names of the nodes of the resolved graph of one kind, in iteration order.
NamesWhere(deps, P(_)) ==
    LET kept == SelectSeq(deps, P)
    IN [i \in 1..Len(kept) |-> kept[i].name]

\* Plan j was finished in this run: skipped, or fetched.
PlanFinished(j) ==
    \/ files[j].name \in Range(skipped)
    \/ files[j].registryPath \in Range(requests)

\* The plans are in the graph's order, and the installer has finished every
\* plan before the current one and started none after it.
PlansInOrder ==
    /\ [i \in 1..Len(files) |-> files[i].name] =
          NamesWhere(dependencies, LAMBDA d : d.type # "package")
    /\ packages = NamesWhere(dependencies, LAMBDA d : d.type = "package")
    /\ idx \in 1..(Len(files) + 1)
    /\ Len(prompted) = IF pc \in {"prompt", "fetch", "crashed"} THEN idx ELSE idx - 1
    /\ prompted = [i \in 1..Len(prompted) |-> files[i].name]
    /\ \A j \in 1..(idx - 1) : PlanFinished(j)
    /\ \A j \in (idx + 1)..Len(files) : ~PlanFinished(j)
    /\ Len(skipped) + Len(requests) = IF pc = "prompt" THEN idx - 1 ELSE Len(prompted)

\* A step of the installer works on the current plan only: it moves on by
\* one, after the prompt was declined or the file was written, and it writes
\* nothing but the current plan's file and index.
OnePlanAtATime ==
    /\ idx' # idx =>
          \/ idx' = idx + 1 /\ pc \in {"prompt", "fetch"} /\ pc' = "loop"
          \/ idx' = 1 /\ pc = "done"
    /\ fsFiles' # fsFiles =>
          /\ pc = "fetch"
          /\ \A p \in DOMAIN fsFiles' \ {files[idx].directoryPath, files[idx].indexPath} :
                p \in DOMAIN fsFiles /\ fsFiles'[p] = fsFiles[p]
    /\ pc' \in {"prompt", "fetch"} => idx' = idx

(* C14: the file plans are in the resolved graph's iteration order with the
   packages removed, the package names are collected in that same order, and
   the installer finishes plan i (prompt, then skip or fetch, write and index
   update) before it starts plan i+1, so no two plans interleave their work on
   an index. *)
C14_OrderingAndSeriality ==
    [][(Installing => PlansInOrder) /\ (Installing' => PlansInOrder')
       /\ (Installing => OnePlanAtATime)]_vars

\* A finished run over a graph with a package between two files, in which
\* one plan was skipped and another fetched.
C14_Witness ==
    /\ pc = "done"
    /\ runs = 1
    /\ Len(files) >= 2
    /\ packages # <<>>
    /\ skipped # <<>>
    /\ requests # <<>>
    /\ \E i, j, k \in 1..Len(dependencies) :
          /\ i < j /\ j < k
          /\ dependencies[i].type # "package"
          /\ dependencies[j].type = "package"
          /\ dependencies[k].type # "package"

\* s is an initial part of t.
IsPrefix(s, t) == Len(s) <= Len(t) /\ SubSeq(t, 1, Len(s)) = s

(* C15: every step leaves the previous content of each barrel index as a
   prefix of its new content: an index that exists is never removed,
   truncated, reordered or rewritten, and an index is created only when it did
   not exist, by the install step of a plan that exports from it, and then
   holds nothing but that plan's statement. *)
C15_AppendOnlyIndex ==
    [][Installing =>
          \A p \in PlanIndexes :
             /\ p \in DOMAIN fsFiles =>
                   p \in DOMAIN fsFiles' /\ IsPrefix(fsFiles[p], fsFiles'[p])
             /\ (p \notin DOMAIN fsFiles /\ p \in DOMAIN fsFiles') =>
                   /\ InstallStep
                   /\ p = files[idx].indexPath
                   /\ fsFiles'[p] = ExportStatement(files[idx].filePath)]_vars

\* Units a and b were installed over a hooks index that held other text:
\* the text is still there, followed by the two statements.
C15_Witness ==
    /\ pc = "loop"
    /\ idx = 3
    /\ HooksIndexTs \in DOMAIN fsFiles
    /\ fsFiles[HooksIndexTs] =
          <<Text, NL>> \o ExportStatement(<<"a", "a">>) \o ExportStatement(<<"b", "b">>)


(* C16: once a plan that was not skipped and whose fetch succeeded is
   processed, its destination directory exists, its destination file holds
   exactly the fetched bytes, and its barrel index exists and has the plan's
   export statement as one of its lines. *)
C16_InstallPostcondition ==
    [][InstallStep =>
          /\ Dirname(files[idx].directoryPath) \in fsDirs'
          /\ files[idx].directoryPath \in DOMAIN fsFiles'
          /\ fsFiles'[files[idx].directoryPath] = RemoteContent(files[idx].registryPath)
          /\ files[idx].indexPath \in DOMAIN fsFiles'
          /\ HasLine(fsFiles'[files[idx].indexPath], files[idx].filePath)]_vars

\* The part of C16 about the directory and the file, which the code keeps.
C16_FileWritten ==
    [][InstallStep =>
          /\ Dirname(files[idx].directoryPath) \in fsDirs'
          /\ files[idx].directoryPath \in DOMAIN fsFiles'
          /\ fsFiles'[files[idx].directoryPath] = RemoteContent(files[idx].registryPath)
          /\ files[idx].indexPath \in DOMAIN fsFiles']_vars


\* h is nothing but a local helper to the visited units: none is named h, and
\* none declares h as a helper or a package.
OnlyLocal(h) ==
    \A v \in Range(calls) \cap DOMAIN registry :
        /\ v # h
        /\ h \notin Range(registry[v].utils) \cup Range(registry[v].packages)

(* C17: for every unit u of the resolved graph and every local helper h that
   u declares, the plans hold a local-helper plan with destination
   {hooksRoot}/u/helpers/h.{ext}, index {hooksRoot}/u/helpers/index.{ext} and
   source {repoBaseURL}/hooks/u/helpers/h.{ext}, also when two resolved units
   declare a local helper of the same name. *)
C17_LocalHelpersReachOwner ==
    ResolvedOk =>
        LET ext == Language(config)
        IN \A u \in Range(calls) \cap DOMAIN registry :
              \A h \in Range(registry[u].local) :
                 OnlyLocal(h) =>
                    \E j \in 1..Len(files) :
                       /\ files[j].type = "local"
                       /\ files[j].directoryPath =
                             pathToLoadHooks \o <<u, "helpers", FileName(h, ext)>>
                       /\ files[j].indexPath =
                             pathToLoadHooks \o <<u, "helpers", FileName("index", ext)>>
                       /\ files[j].registryPath =
                             <<RepoUrl(ext), "hooks", u, "helpers", FileName(h, ext)>>


(* C18: every requested root unit and every unit reached through units edges
   is in the resolved graph with kind unit and has a unit file plan, also when
   some visited unit declares the same name as a helper, local helper or
   package. *)
C18_UnitsStayUnits ==
    ResolvedOk =>
        \A u \in ReachableUnits(registry, selectedHooks) :
            /\ MapHas(dependencies, u)
            /\ MapGet(dependencies, u).type = "hook"
            /\ \E j \in 1..Len(files) : files[j].name = u /\ files[j].type = "hook"


\* Every plan of the run is in place: its directory exists, its file holds what
\* its URL serves, and its index holds its export statement.
AllInstalled ==
    \A j \in 1..Len(files) :
        Dirname(files[j].directoryPath) \in fsDirs /\ PlanInstalled(j)

(* C19: a run in which every prompt is accepted and every fetch succeeds ends
   with every plan in place, and from a disk with every plan in place no step
   of a run over the same plans changes a directory, a file or an index: a
   second such run leaves the disk as the first one left it. *)
C19_WholeRunIdempotence ==
    [][/\ (Installing' /\ pc' = "done" /\ skipped' = <<>>) => AllInstalled'
       /\ (Installing /\ AllInstalled) => (fsDirs' = fsDirs /\ fsFiles' = fsFiles)]_vars

\* The second run over two or more plans has ended with every prompt accepted
\* and every fetch made.
C19_Witness ==
    /\ pc = "done"
    /\ runs = 2
    /\ skipped = <<>>
    /\ Len(files) >= 2
    /\ Len(requests) = Len(files)
    /\ AllInstalled


\* A queued `change` event is delivered in this step.
DeliverStep == pending' = pending - 1

(* C20: the hook registers exactly one `change` listener on mount and removes
   that same listener on unmount; while mounted, after each change event the
   returned state equals the screen orientation read at that event; a change
   event delivered after unmount never alters the returned state. *)
C20_ListenerLifecycle ==
    [][/\ phase' = "mounted" => listeners' = {mounts'}
       /\ phase' # "mounted" => listeners' = {}
       /\ (DeliverStep /\ phase = "mounted") => orientation' = screenOrientation
       /\ (DeliverStep /\ phase = "unmounted") => orientation' = orientation]_vars

(* C20 where the Screen Orientation API may be missing: if
   window.screen.orientation exists, the hook registers exactly one `change`
   listener on mount and removes that same listener on unmount, after each
   change event delivered while mounted the returned state equals the screen
   orientation read at that event, and an event delivered after unmount never
   alters the returned state; if it does not exist, no listener is ever
   registered and the returned state stays {angle: 0, type:
   'landscape-primary'}. *)
C20_ListenerLifecycleWhereSupported ==
    [][/\ (phase' = "mounted" /\ screenOrientation' # Undefined) => listeners' = {mounts'}
       /\ (phase' # "mounted" \/ screenOrientation' = Undefined) => listeners' = {}
       /\ (DeliverStep /\ phase = "mounted") => orientation' = screenOrientation
       /\ (DeliverStep /\ phase = "unmounted") => orientation' = orientation
       /\ screenOrientation' = Undefined => orientation' = InitialOrientation]_vars

\* The component was mounted twice; in its second life a change event set the
\* state, and after the unmount the screen turned and the event was delivered
\* without touching the state.
C20_Witness ==
    /\ phase = "unmounted"
    /\ mounts = 2
    /\ listeners = {}
    /\ pending = 0
    /\ screenOrientation # Undefined
    /\ orientation # InitialOrientation
    /\ orientation # screenOrientation

\* The component is mounted where window.screen.orientation is missing: no
\* listener is registered.
C20_WitnessUnsupported ==
    /\ phase = "mounted"
    /\ screenOrientation = Undefined
    /\ listeners = {}

====
